---- MODULE Spec2Model ----
(***************************************************************************)
(* Model of the string_similarity library (qfewzz/string-similarity).      *)
(*                                                                         *)
(* The library is a set of pure static methods on pairs of strings.  A     *)
(* string is modelled as a sequence of one-character strings; Python's     *)
(* 0-based s[i] is At(s, i).  Every method is an operator computed the way *)
(* the code computes it (the DP matrices are filled cell by cell in the    *)
(* code's loop order), and one action per method applies it to the inputs  *)
(* chosen by Init and stores what the call produced in ret: a record       *)
(* [err, val], err naming the exception raised ("none" when the call       *)
(* returns).  Floats are modelled as exact fractions [num, den].           *)
(***************************************************************************)
EXTENDS Integers, Sequences, FiniteSets, TLC

VARIABLES str1, str2, str3, p, scores, called, ret

vars == <<str1, str2, str3, p, scores, called, ret>>

(* ------------------------------ bounds --------------------------------- *)

\* longest input of the edit-distance / subsequence specification
MaxLen == 4
\* longest input of the three-string (triangle) specification
MaxLenTri == 2
\* longest input of the Jaro / Jaro-Winkler specification
MaxLenJ == 5

\* characters the inputs are drawn from
Chars == {"a", "b", "c"}
\* characters of the Jaro inputs
CharsJ == {"a", "b"}
\* longest input of the Smith-Waterman specification
MaxLenSW == 3
\* longest input of the specification that calls every method
MaxLenAll == 2
\* its characters: a consonant, the vowel e in both cases, and a blank
CharsAll == {"b", "e", "E", " "}

\* all strings over alphabet cs of length at most n
Strings(cs, n) == UNION {[1..k -> cs] : k \in 0..n}

(* --------------------------- Python built-ins -------------------------- *)

\* s[i] with 0-based i
At(s, i) == s[i + 1]

Min2(x, y) == IF x <= y THEN x ELSE y
Max2(x, y) == IF x >= y THEN x ELSE y
Min3(x, y, z) == Min2(x, Min2(y, z))

\* a call that returned v / a call that raised e
NoValue == "None"
Return(v) == [err |-> "none", val |-> v]
Raise(e) == [err |-> e, val |-> NoValue]

\* [[0] * (n + 1) for _ in range(m + 1)]
ZeroMatrix(m, n) == [i \in 0..m |-> [j \in 0..n |-> 0]]

(* ------------------------------ hamming -------------------------------- *)

\* for char1, char2 in zip(str1, str2): if char1 != char2: distance += 1
RECURSIVE HammingLoop(_, _, _, _)
HammingLoop(s1, s2, i, distance) ==
    IF i >= Min2(Len(s1), Len(s2)) THEN distance
    ELSE HammingLoop(s1, s2, i + 1,
                     IF At(s1, i) # At(s2, i) THEN distance + 1 ELSE distance)

\* the same loop without the length check
hamming_distance_nocheck(s1, s2) == Return(HammingLoop(s1, s2, 0, 0))

hamming_distance(s1, s2) ==
    IF Len(s1) # Len(s2) THEN Raise("ValueError")
    ELSE Return(HammingLoop(s1, s2, 0, 0))

(* ----------------------------- levenshtein ----------------------------- *)

\* the cell with the character comparison inverted
LevCell_inverted(dp, s1, s2, i, j) ==
    IF i = 0 THEN j
    ELSE IF j = 0 THEN i
    ELSE Min3(dp[i - 1][j] + 1,
              dp[i][j - 1] + 1,
              dp[i - 1][j - 1] + (IF At(s1, i - 1) = At(s2, j - 1) THEN 1 ELSE 0))

\* the cell with the deletion term dropped
LevCell_nodel(dp, s1, s2, i, j) ==
    IF i = 0 THEN j
    ELSE IF j = 0 THEN i
    ELSE Min2(dp[i][j - 1] + 1,
              dp[i - 1][j - 1] + (IF At(s1, i - 1) = At(s2, j - 1) THEN 0 ELSE 1))

\* the value the loop body assigns to dp[i][j]
LevCell(dp, s1, s2, i, j) ==
    IF i = 0 THEN j
    ELSE IF j = 0 THEN i
    ELSE Min3(dp[i - 1][j] + 1,
              dp[i][j - 1] + 1,
              dp[i - 1][j - 1] + (IF At(s1, i - 1) = At(s2, j - 1) THEN 0 ELSE 1))

\* for i in range(m + 1): for j in range(n + 1): dp[i][j] = ...
RECURSIVE LevFill(_, _, _, _, _)
LevFill(dp, s1, s2, i, j) ==
    IF i > Len(s1) THEN dp
    ELSE IF j > Len(s2) THEN LevFill(dp, s1, s2, i + 1, 0)
    ELSE LevFill([dp EXCEPT ![i][j] = LevCell(dp, s1, s2, i, j)], s1, s2, i, j + 1)

levenshtein_distance(s1, s2) ==
    LET m == Len(s1)
        n == Len(s2)
        dp == LevFill(ZeroMatrix(m, n), s1, s2, 0, 0)
    IN  Return(dp[m][n])

(* -------------------------- damerau-levenshtein ------------------------ *)

\* the cell without the adjacent-transposition relaxation
DamerauCell_notrans(dp, s1, s2, i, j) == LevCell(dp, s1, s2, i, j)

\* the value dp[i][j] holds after the loop body: the Levenshtein minimum,
\* then the relaxation through dp[i-2][j-2] when the last two characters
\* are swapped
DamerauCell(dp, s1, s2, i, j) ==
    IF i = 0 THEN j
    ELSE IF j = 0 THEN i
    ELSE LET base == Min3(dp[i - 1][j] + 1,
                          dp[i][j - 1] + 1,
                          dp[i - 1][j - 1]
                            + (IF At(s1, i - 1) = At(s2, j - 1) THEN 0 ELSE 1))
         IN  IF /\ i > 1
                /\ j > 1
                /\ At(s1, i - 1) = At(s2, j - 2)
                /\ At(s1, i - 2) = At(s2, j - 1)
             THEN Min2(base, dp[i - 2][j - 2] + 1)
             ELSE base

RECURSIVE DamerauFill(_, _, _, _, _)
DamerauFill(dp, s1, s2, i, j) ==
    IF i > Len(s1) THEN dp
    ELSE IF j > Len(s2) THEN DamerauFill(dp, s1, s2, i + 1, 0)
    ELSE DamerauFill([dp EXCEPT ![i][j] = DamerauCell(dp, s1, s2, i, j)],
                     s1, s2, i, j + 1)

damerau_levenshtein_distance(s1, s2) ==
    LET m == Len(s1)
        n == Len(s2)
        dp == DamerauFill(ZeroMatrix(m, n), s1, s2, 0, 0)
    IN  Return(dp[m][n])

(* --------------------------------- lcs --------------------------------- *)

\* the cell taking the diagonal on a mismatch too
LcsCell_diag(dp, X, Y, i, j) ==
    IF At(X, i - 1) = At(Y, j - 1) THEN dp[i - 1][j - 1] + 1
    ELSE dp[i - 1][j - 1]

\* the value the loop body assigns to dp[i][j], 1 <= i <= m, 1 <= j <= n
LcsCell(dp, X, Y, i, j) ==
    IF At(X, i - 1) = At(Y, j - 1) THEN dp[i - 1][j - 1] + 1
    ELSE Max2(dp[i - 1][j], dp[i][j - 1])

\* for i in range(1, m + 1): for j in range(1, n + 1): dp[i][j] = ...
RECURSIVE LcsFill(_, _, _, _, _)
LcsFill(dp, X, Y, i, j) ==
    IF i > Len(X) THEN dp
    ELSE IF j > Len(Y) THEN LcsFill(dp, X, Y, i + 1, 1)
    ELSE LcsFill([dp EXCEPT ![i][j] = LcsCell(dp, X, Y, i, j)], X, Y, i, j + 1)

lcs(X, Y) ==
    LET m == Len(X)
        n == Len(Y)
        dp == LcsFill(ZeroMatrix(m, n), X, Y, 1, 1)
    IN  Return(dp[m][n])

(* ------------------------------ fractions ------------------------------ *)

RECURSIVE Gcd(_, _)
Gcd(x, y) == IF y = 0 THEN x ELSE Gcd(y, x % y)

\* a float, kept as the exact fraction num/den in lowest terms, den > 0
Rat(n, d) ==
    LET g == Gcd(IF n < 0 THEN -n ELSE n, d)
    IN  [num |-> n \div g, den |-> d \div g]
RatAdd(x, y) == Rat(x.num * y.den + y.num * x.den, x.den * y.den)
RatSub(x, y) == Rat(x.num * y.den - y.num * x.den, x.den * y.den)
RatMul(x, y) == Rat(x.num * y.num, x.den * y.den)
RatDivInt(x, k) == Rat(x.num, x.den * k)
RatEq(x, y) == x.num * y.den = y.num * x.den
RatLe(x, y) == x.num * y.den <= y.num * x.den
RatLt(x, y) == x.num * y.den < y.num * x.den

(* -------------------------------- jaro --------------------------------- *)

\* the distance without the - 1
MatchDistance_half(s1, s2) == Max2(Len(s1), Len(s2)) \div 2

\* max(len_str1, len_str2) // 2 - 1
MatchDistance(s1, s2) == (Max2(Len(s1), Len(s2)) \div 2) - 1

\* the window reaching one position further to the right
WindowEnd_wide(i, match_distance, len_str2) ==
    Min2(i + match_distance + 2, len_str2)

\* end = min(i + match_distance + 1, len_str2)
WindowEnd(i, match_distance, len_str2) ==
    Min2(i + match_distance + 1, len_str2)

\* start = max(0, i - match_distance)
WindowStart(i, match_distance) == Max2(0, i - match_distance)

\* the update that leaves str2[j] unmarked
JaroMark_str1only(st, i, j) ==
    [matches_str1 |-> [st.matches_str1 EXCEPT ![i + 1] = TRUE],
     matches_str2 |-> st.matches_str2,
     match_count |-> st.match_count + 1]

\* matches_str1[i] = True; matches_str2[j] = True; match_count += 1
JaroMark(st, i, j) ==
    [matches_str1 |-> [st.matches_str1 EXCEPT ![i + 1] = TRUE],
     matches_str2 |-> [st.matches_str2 EXCEPT ![j + 1] = TRUE],
     match_count |-> st.match_count + 1]

\* for j in range(start, end): the first j with str2[j] unmatched and equal
\* to str1[i], where the loop breaks; -1 when the loop runs out
RECURSIVE JaroScan(_, _, _, _, _, _)
JaroScan(s1, s2, matches_str2, i, j, end) ==
    IF j >= end THEN -1
    ELSE IF ~At(matches_str2, j) /\ At(s1, i) = At(s2, j) THEN j
    ELSE JaroScan(s1, s2, matches_str2, i, j + 1, end)

\* the matching loop from position i of str1 on; st holds matches_str1,
\* matches_str2 and match_count
RECURSIVE JaroMatch(_, _, _, _)
JaroMatch(s1, s2, st, i) ==
    IF i >= Len(s1) THEN st
    ELSE LET match_distance == MatchDistance(s1, s2)
             start == WindowStart(i, match_distance)
             end == WindowEnd(i, match_distance, Len(s2))
             j == JaroScan(s1, s2, st.matches_str2, i, start, end)
         IN  JaroMatch(s1, s2,
                 IF j = -1 THEN st ELSE JaroMark(st, i, j),
                 i + 1)

\* the state after the matching phase
JaroMatching(s1, s2) ==
    JaroMatch(s1, s2,
              [matches_str1 |-> [x \in 1..Len(s1) |-> FALSE],
               matches_str2 |-> [x \in 1..Len(s2) |-> FALSE],
               match_count |-> 0],
              0)

\* while not matches_str2[k]: k += 1; the k the loop stops at, or -1 when
\* matches_str2[k] is read with k = len(str2) (IndexError)
RECURSIVE JaroSkip(_, _)
JaroSkip(matches_str2, k) ==
    IF k >= Len(matches_str2) THEN -1
    ELSE IF At(matches_str2, k) THEN k
    ELSE JaroSkip(matches_str2, k + 1)

\* the transposition loop from position i of str1 on, with cursor k
RECURSIVE JaroTranspositions(_, _, _, _, _, _)
JaroTranspositions(s1, s2, st, i, k, transpositions) ==
    IF i >= Len(s1) THEN Return(transpositions)
    ELSE IF ~At(st.matches_str1, i)
         THEN JaroTranspositions(s1, s2, st, i + 1, k, transpositions)
    ELSE LET k2 == JaroSkip(st.matches_str2, k)
         IN  IF k2 = -1 THEN Raise("IndexError")
             ELSE JaroTranspositions(s1, s2, st, i + 1, k2 + 1,
                      IF At(s1, i) # At(s2, k2) THEN transpositions + 1
                      ELSE transpositions)

\* the similarity with the transposition term left out of the third summand
JaroSimilarity_dropterm(match_count, transpositions, len_str1, len_str2) ==
    RatDivInt(RatAdd(RatAdd(Rat(match_count, len_str1),
                            Rat(match_count, len_str2)),
                     Rat(match_count + transpositions, match_count)), 3)

\* (m/len_str1 + m/len_str2 + (m - t)/m) / 3
JaroSimilarity(match_count, transpositions, len_str1, len_str2) ==
    RatDivInt(RatAdd(RatAdd(Rat(match_count, len_str1),
                            Rat(match_count, len_str2)),
                     Rat(match_count - transpositions, match_count)), 3)

\* match_count and the halved transposition count of a call that gets past
\* the match_count == 0 return
JaroCounts(s1, s2) ==
    LET st == JaroMatching(s1, s2)
        tr == JaroTranspositions(s1, s2, st, 0, 0, 0)
    IN  IF tr.err # "none" THEN tr
        ELSE Return([match_count |-> st.match_count,
                     transpositions |-> tr.val \div 2])

jaro_distance(s1, s2) ==
    LET st == JaroMatching(s1, s2)
    IN  IF st.match_count = 0 THEN Return(Rat(0, 1))
        ELSE LET c == JaroCounts(s1, s2)
             IN  IF c.err # "none" THEN c
                 ELSE IF Len(s1) = 0 \/ Len(s2) = 0
                      THEN Raise("ZeroDivisionError")
                 ELSE Return(JaroSimilarity(c.val.match_count,
                                            c.val.transpositions,
                                            Len(s1), Len(s2)))

(* ---------------------------- jaro-winkler ----------------------------- *)

\* for char1, char2 in zip(str1, str2): count until the first difference
RECURSIVE CommonPrefixLen(_, _, _)
CommonPrefixLen(s1, s2, i) ==
    IF i >= Min2(Len(s1), Len(s2)) THEN i
    ELSE IF At(s1, i) = At(s2, i) THEN CommonPrefixLen(s1, s2, i + 1)
    ELSE i

\* the result clamped to 1.0
WinklerFormula_clamped(jaro_dist, q, common_prefix_len) ==
    LET r == RatAdd(jaro_dist,
                    RatMul(RatMul(q, Rat(common_prefix_len, 1)),
                           RatSub(Rat(1, 1), jaro_dist)))
    IN  IF RatLt(Rat(1, 1), r) THEN Rat(1, 1) ELSE r

\* the boost applied with the opposite sign
WinklerFormula_minus(jaro_dist, q, common_prefix_len) ==
    RatSub(jaro_dist,
           RatMul(RatMul(q, Rat(common_prefix_len, 1)),
                  RatSub(Rat(1, 1), jaro_dist)))

\* jaro_dist + p * common_prefix_len * (1 - jaro_dist)
WinklerFormula(jaro_dist, q, common_prefix_len) ==
    RatAdd(jaro_dist,
           RatMul(RatMul(q, Rat(common_prefix_len, 1)),
                  RatSub(Rat(1, 1), jaro_dist)))

jaro_winkler_distance(s1, s2, q) ==
    LET jaro_dist == jaro_distance(s1, s2)
    IN  IF jaro_dist.err # "none" THEN jaro_dist
        ELSE Return(WinklerFormula(jaro_dist.val, q, CommonPrefixLen(s1, s2, 0)))

(* --------------------------- smith-waterman ---------------------------- *)

Max4(w, x, y, z) == Max2(Max2(w, x), Max2(y, z))

\* seq[:i]
Prefix(seq, i) == SubSeq(seq, 1, i)

\* the cell with the diagonal neighbour left out of the match term
SwCell_nodiag(score_matrix, seq1, seq2, i, j, match_score, mismatch_score, gap_penalty) ==
    LET match == IF At(seq1, i - 1) = At(seq2, j - 1)
                 THEN match_score ELSE mismatch_score
        delete == score_matrix[i - 1][j] + gap_penalty
        insert == score_matrix[i][j - 1] + gap_penalty
    IN  Max4(0, match, delete, insert)

\* the value the loop body assigns to score_matrix[i][j]
SwCell(score_matrix, seq1, seq2, i, j, match_score, mismatch_score, gap_penalty) ==
    LET match == score_matrix[i - 1][j - 1]
                   + (IF At(seq1, i - 1) = At(seq2, j - 1)
                      THEN match_score ELSE mismatch_score)
        delete == score_matrix[i - 1][j] + gap_penalty
        insert == score_matrix[i][j - 1] + gap_penalty
    IN  Max4(0, match, delete, insert)

\* the test also taking a score that only equals the best so far
SwBetter_orequal(v, max_score) == v >= max_score

\* if score_matrix[i][j] > max_score
SwBetter(v, max_score) == v > max_score

\* for i in range(1, rows): for j in range(1, cols): fill the cell, then
\* replace the best score and the two prefixes on a strictly greater score;
\* st holds score_matrix, max_score, optimal_align1 and optimal_align2
RECURSIVE SwFill(_, _, _, _, _, _, _, _)
SwFill(st, seq1, seq2, i, j, match_score, mismatch_score, gap_penalty) ==
    IF i > Len(seq1) THEN st
    ELSE IF j > Len(seq2)
         THEN SwFill(st, seq1, seq2, i + 1, 1,
                     match_score, mismatch_score, gap_penalty)
    ELSE LET v == SwCell(st.score_matrix, seq1, seq2, i, j,
                         match_score, mismatch_score, gap_penalty)
             sm == [st.score_matrix EXCEPT ![i][j] = v]
         IN  SwFill(IF SwBetter(v, st.max_score)
                    THEN [score_matrix |-> sm,
                          max_score |-> v,
                          optimal_align1 |-> Prefix(seq1, i),
                          optimal_align2 |-> Prefix(seq2, j)]
                    ELSE [st EXCEPT !.score_matrix = sm],
                    seq1, seq2, i, j + 1,
                    match_score, mismatch_score, gap_penalty)

\* the state when the loops are done
SwRun(seq1, seq2, match_score, mismatch_score, gap_penalty) ==
    SwFill([score_matrix |-> ZeroMatrix(Len(seq1), Len(seq2)),
            max_score |-> 0,
            optimal_align1 |-> <<>>,
            optimal_align2 |-> <<>>],
           seq1, seq2, 1, 1, match_score, mismatch_score, gap_penalty)

smith_waterman(seq1, seq2, match_score, mismatch_score, gap_penalty) ==
    LET st == SwRun(seq1, seq2, match_score, mismatch_score, gap_penalty)
    IN  Return(<<st.max_score, st.optimal_align1, st.optimal_align2>>)

\* match_score=3, mismatch_score=-3, gap_penalty=-2
DefaultMatchScore == 3
DefaultMismatchScore == -3
DefaultGapPenalty == -2

\* the score arguments of a call that passes none
DefaultScores ==
    [match_score |-> DefaultMatchScore,
     mismatch_score |-> DefaultMismatchScore,
     gap_penalty |-> DefaultGapPenalty]

(* ---------------------- longest common substring ----------------------- *)

\* the test also taking a cell that only equals the longest so far
LcsubBetter_orequal(v, max_len) == v >= max_len

\* if dp[i][j] > max_len
LcsubBetter(v, max_len) == v > max_len

\* the fill loops; st holds dp, max_len, max_i and max_j
RECURSIVE LcsubFill(_, _, _, _, _)
LcsubFill(st, X, Y, i, j) ==
    IF i > Len(X) THEN st
    ELSE IF j > Len(Y) THEN LcsubFill(st, X, Y, i + 1, 1)
    ELSE IF At(X, i - 1) = At(Y, j - 1)
         THEN LET v == st.dp[i - 1][j - 1] + 1
                  d == [st.dp EXCEPT ![i][j] = v]
              IN  LcsubFill(IF LcsubBetter(v, st.max_len)
                            THEN [dp |-> d, max_len |-> v, max_i |-> i, max_j |-> j]
                            ELSE [st EXCEPT !.dp = d],
                            X, Y, i, j + 1)
    ELSE LcsubFill(st, X, Y, i, j + 1)

\* while max_len > 0: lcs = X[max_i - 1] + lcs; step all three back
RECURSIVE LcsubBuild(_, _, _, _)
LcsubBuild(X, max_i, max_len, acc) ==
    IF max_len > 0
    THEN LcsubBuild(X, max_i - 1, max_len - 1, <<At(X, max_i - 1)>> \o acc)
    ELSE acc

\* the state when the fill loops are done
LcsubRun(X, Y) ==
    LcsubFill([dp |-> ZeroMatrix(Len(X), Len(Y)),
               max_len |-> 0, max_i |-> 0, max_j |-> 0], X, Y, 1, 1)

longest_common_substring(X, Y) ==
    LET st == LcsubRun(X, Y)
    IN  Return(LcsubBuild(X, st.max_i, st.max_len, <<>>))

(* ----------------------------- str methods ----------------------------- *)

\* str.lower() of one character: "E" is the upper-case letter of the model
LowerChar(c) == IF c = "E" THEN "e" ELSE c

\* str.lower()
Lower(s) == [i \in 1..Len(s) |-> LowerChar(s[i])]

\* str.isalpha() of one character
IsAlpha(c) == c \in {"a", "b", "c", "e", "E"}

\* the characters str.strip() removes
Whitespace == {" "}

\* str.strip(): drop leading and trailing whitespace
RECURSIVE LStrip(_)
LStrip(s) == IF Len(s) > 0 /\ Head(s) \in Whitespace THEN LStrip(Tail(s)) ELSE s
RECURSIVE RStrip(_)
RStrip(s) ==
    IF Len(s) > 0 /\ s[Len(s)] \in Whitespace
    THEN RStrip(SubSeq(s, 1, Len(s) - 1)) ELSE s
Strip(s) == RStrip(LStrip(s))

\* set(s): the characters of s
CharSet(s) == {s[i] : i \in 1..Len(s)}

\* set([s[i : i + q] for i in range(len(s) - q + 1)])
QGrams(s, q) == {SubSeq(s, i + 1, i + q) : i \in 0..(Len(s) - q)}

(* ------------------------------ token based ---------------------------- *)

\* the q-gram length used by default
DefaultQ == 2

qgram_similarity(s1, s2, q) ==
    LET set1 == QGrams(s1, q)
        set2 == QGrams(s2, q)
        common_qgrams == set1 \cap set2
        d == Max2(Cardinality(set1), Cardinality(set2))
    IN  IF d = 0 THEN Raise("ZeroDivisionError")
        ELSE Return(Rat(Cardinality(common_qgrams), d))

\* the fill loops of overlap_coefficient; st holds dp and max_len
RECURSIVE OverlapFill(_, _, _, _, _)
OverlapFill(st, s1, s2, i, j) ==
    IF i > Len(s1) THEN st
    ELSE IF j > Len(s2) THEN OverlapFill(st, s1, s2, i + 1, 1)
    ELSE IF At(s1, i - 1) = At(s2, j - 1)
         THEN LET v == st.dp[i - 1][j - 1] + 1
              IN  OverlapFill([dp |-> [st.dp EXCEPT ![i][j] = v],
                               max_len |-> Max2(st.max_len, v)],
                              s1, s2, i, j + 1)
    ELSE OverlapFill(st, s1, s2, i, j + 1)

overlap_coefficient(s1, s2) ==
    LET m == Len(s1)
        n == Len(s2)
        st == OverlapFill([dp |-> ZeroMatrix(m, n), max_len |-> 0], s1, s2, 1, 1)
        min_len == Min2(m, n)
    IN  IF min_len = 0 THEN Return(Rat(0, 1))
        ELSE Return(Rat(st.max_len, min_len))

jaccard_similarity(s1, s2) ==
    LET set1 == CharSet(Lower(s1))
        set2 == CharSet(Lower(s2))
        intersection == set1 \cap set2
        union == set1 \cup set2
    IN  IF Cardinality(union) = 0 THEN Return(Rat(0, 1))
        ELSE Return(Rat(Cardinality(intersection), Cardinality(union)))

dice_coefficient(s1, s2) ==
    LET l1 == Strip(Lower(s1))
        l2 == Strip(Lower(s2))
        bigrams1 == QGrams(l1, 2)
        bigrams2 == QGrams(l2, 2)
        intersection == bigrams1 \cap bigrams2
        union == bigrams1 \cup bigrams2
    IN  IF Cardinality(union) = 0 THEN Return(Rat(1, 1))
        ELSE Return(Rat(2 * Cardinality(intersection), Cardinality(union)))

\* freq.get(char, 0) after the counting loop over s
Freq(s, char) == Cardinality({i \in 1..Len(s) : s[i] = char})

Abs(x) == IF x < 0 THEN -x ELSE x

\* for char in (the key set cs): distance += abs(freq1 - freq2)
RECURSIVE BagSum(_, _, _)
BagSum(cs, s1, s2) ==
    IF cs = {} THEN 0
    ELSE LET char == CHOOSE c \in cs : TRUE
         IN  Abs(Freq(s1, char) - Freq(s2, char)) + BagSum(cs \ {char}, s1, s2)

bag_distance(s1, s2) == Return(BagSum(CharSet(s1) \cup CharSet(s2), s1, s2))

(* ------------------------- syllable alignment -------------------------- *)

Vowels == {"a", "e", "i", "o", "u", "y"}

\* the loop of count_syllables over word.lower()
RECURSIVE SyllableLoop(_, _, _, _)
SyllableLoop(w, i, count, prev_char_vowel) ==
    IF i >= Len(w) THEN count
    ELSE LET is_vowel == At(w, i) \in Vowels
         IN  SyllableLoop(w, i + 1,
                          IF is_vowel /\ ~prev_char_vowel THEN count + 1 ELSE count,
                          is_vowel)

count_syllables(word) ==
    LET c1 == SyllableLoop(Lower(word), 0, 0, FALSE)
        c2 == IF Len(word) > 0 /\ word[Len(word)] = "e" THEN c1 + 1 ELSE c1
    IN  IF c2 = 0 THEN 1 ELSE c2

\* [char for char in string.lower() if char.isalpha()]
RECURSIVE AlphaChars(_)
AlphaChars(s) ==
    IF s = <<>> THEN <<>>
    ELSE (IF IsAlpha(Head(s)) THEN <<Head(s)>> ELSE <<>>) \o AlphaChars(Tail(s))

\* the first row and the first column of distance_matrix
SyllableMatrix(n1, n2) ==
    [i \in 0..n1 |-> [j \in 0..n2 |-> IF j = 0 THEN i ELSE IF i = 0 THEN j ELSE 0]]

\* the fill loops; syllables1[i - 1] and syllables2[j - 1] are read in every
\* cell, and a read past the end of either list raises IndexError
RECURSIVE SyllableFill(_, _, _, _, _, _, _)
SyllableFill(dm, syllables1, syllables2, n1, n2, i, j) ==
    IF i > n1 THEN Return(dm)
    ELSE IF j > n2 THEN SyllableFill(dm, syllables1, syllables2, n1, n2, i + 1, 1)
    ELSE IF i - 1 >= Len(syllables1) \/ j - 1 >= Len(syllables2)
         THEN Raise("IndexError")
    ELSE SyllableFill(
             [dm EXCEPT ![i][j] =
                 IF At(syllables1, i - 1) = At(syllables2, j - 1)
                 THEN dm[i - 1][j - 1]
                 ELSE Min3(dm[i - 1][j], dm[i][j - 1], dm[i - 1][j - 1]) + 1],
             syllables1, syllables2, n1, n2, i, j + 1)

syllable_alignment_distance(string1, string2) ==
    LET syllables1 == AlphaChars(Lower(string1))
        syllables2 == AlphaChars(Lower(string2))
        num_syllables1 == count_syllables(string1)
        num_syllables2 == count_syllables(string2)
        filled == SyllableFill(SyllableMatrix(num_syllables1, num_syllables2),
                               syllables1, syllables2,
                               num_syllables1, num_syllables2, 1, 1)
    IN  IF filled.err # "none" THEN filled
        ELSE IF Max2(num_syllables1, num_syllables2) = 0
             THEN Raise("ZeroDivisionError")
        ELSE Return(filled.val[num_syllables1][num_syllables2])

(* ------------------------------ actions -------------------------------- *)

CallHamming ==
    /\ called = "none"
    /\ called' = "hamming_distance"
    /\ ret' = hamming_distance(str1, str2)
    /\ UNCHANGED <<str1, str2, str3, p, scores>>

CallLevenshtein ==
    /\ called = "none"
    /\ called' = "levenshtein_distance"
    /\ ret' = levenshtein_distance(str1, str2)
    /\ UNCHANGED <<str1, str2, str3, p, scores>>

CallDamerauLevenshtein ==
    /\ called = "none"
    /\ called' = "damerau_levenshtein_distance"
    /\ ret' = damerau_levenshtein_distance(str1, str2)
    /\ UNCHANGED <<str1, str2, str3, p, scores>>

CallLcs ==
    /\ called = "none"
    /\ called' = "lcs"
    /\ ret' = lcs(str1, str2)
    /\ UNCHANGED <<str1, str2, str3, p, scores>>

\* default prefix weight p=0.1
DefaultP == Rat(1, 10)

\* the prefix weights jaro_winkler_distance is called with
PValues == {Rat(0, 1), DefaultP, Rat(1, 4), Rat(1, 2)}

CallJaro ==
    /\ called = "none"
    /\ called' = "jaro_distance"
    /\ ret' = jaro_distance(str1, str2)
    /\ UNCHANGED <<str1, str2, str3, p, scores>>

CallJaroWinkler ==
    /\ called = "none"
    /\ \E q \in PValues :
          /\ p' = q
          /\ ret' = jaro_winkler_distance(str1, str2, q)
    /\ called' = "jaro_winkler_distance"
    /\ UNCHANGED <<str1, str2, str3, scores>>

CallSmithWaterman ==
    /\ called = "none"
    /\ called' = "smith_waterman"
    /\ ret' = smith_waterman(str1, str2, scores.match_score,
                             scores.mismatch_score, scores.gap_penalty)
    /\ UNCHANGED <<str1, str2, str3, p, scores>>

CallLongestCommonSubstring ==
    /\ called = "none"
    /\ called' = "longest_common_substring"
    /\ ret' = longest_common_substring(str1, str2)
    /\ UNCHANGED <<str1, str2, str3, p, scores>>

CallQgramSimilarity ==
    /\ called = "none"
    /\ called' = "qgram_similarity"
    /\ ret' = qgram_similarity(str1, str2, DefaultQ)
    /\ UNCHANGED <<str1, str2, str3, p, scores>>

CallOverlapCoefficient ==
    /\ called = "none"
    /\ called' = "overlap_coefficient"
    /\ ret' = overlap_coefficient(str1, str2)
    /\ UNCHANGED <<str1, str2, str3, p, scores>>

CallJaccardSimilarity ==
    /\ called = "none"
    /\ called' = "jaccard_similarity"
    /\ ret' = jaccard_similarity(str1, str2)
    /\ UNCHANGED <<str1, str2, str3, p, scores>>

CallDiceCoefficient ==
    /\ called = "none"
    /\ called' = "dice_coefficient"
    /\ ret' = dice_coefficient(str1, str2)
    /\ UNCHANGED <<str1, str2, str3, p, scores>>

CallBagDistance ==
    /\ called = "none"
    /\ called' = "bag_distance"
    /\ ret' = bag_distance(str1, str2)
    /\ UNCHANGED <<str1, str2, str3, p, scores>>

CallSyllableAlignmentDistance ==
    /\ called = "none"
    /\ called' = "syllable_alignment_distance"
    /\ ret' = syllable_alignment_distance(str1, str2)
    /\ UNCHANGED <<str1, str2, str3, p, scores>>

Init ==
    /\ str1 \in Strings(Chars, MaxLen)
    /\ str2 \in Strings(Chars, MaxLen)
    /\ str3 = <<>>
    /\ p = DefaultP
    /\ scores = DefaultScores
    /\ called = "none"
    /\ ret = Return(NoValue)

Next ==
    \/ CallHamming
    \/ CallLevenshtein
    \/ CallDamerauLevenshtein
    \/ CallLcs

Spec == Init /\ [][Next]_vars

\* three inputs: levenshtein_distance(str1, str2) is called, the other two
\* legs of the triangle go through str3
InitTriangle ==
    /\ str1 \in Strings(Chars, MaxLenTri)
    /\ str2 \in Strings(Chars, MaxLenTri)
    /\ str3 \in Strings(Chars, MaxLenTri)
    /\ p = DefaultP
    /\ scores = DefaultScores
    /\ called = "none"
    /\ ret = Return(NoValue)

NextTriangle == CallLevenshtein

SpecTriangle == InitTriangle /\ [][NextTriangle]_vars

InitJaro ==
    /\ str1 \in Strings(CharsJ, MaxLenJ)
    /\ str2 \in Strings(CharsJ, MaxLenJ)
    /\ str3 = <<>>
    /\ p = DefaultP
    /\ scores = DefaultScores
    /\ called = "none"
    /\ ret = Return(NoValue)

NextJaro ==
    \/ CallJaro
    \/ CallJaroWinkler

SpecJaro == InitJaro /\ [][NextJaro]_vars

InitAll ==
    /\ str1 \in Strings(CharsAll, MaxLenAll)
    /\ str2 \in Strings(CharsAll, MaxLenAll)
    /\ str3 = <<>>
    /\ p = DefaultP
    /\ scores = DefaultScores
    /\ called = "none"
    /\ ret = Return(NoValue)

\* every method but hamming_distance
NextAll ==
    \/ CallLevenshtein
    \/ CallDamerauLevenshtein
    \/ CallJaro
    \/ CallJaroWinkler
    \/ CallSmithWaterman
    \/ CallLcs
    \/ CallLongestCommonSubstring
    \/ CallQgramSimilarity
    \/ CallOverlapCoefficient
    \/ CallJaccardSimilarity
    \/ CallDiceCoefficient
    \/ CallBagDistance
    \/ CallSyllableAlignmentDistance

SpecAll == InitAll /\ [][NextAll]_vars

\* the score arguments smith_waterman is called with: the defaults, unit
\* scores without a gap cost, all zero, a rewarded gap, and a penalised match
ScoreValues ==
    {DefaultScores,
     [match_score |-> 1, mismatch_score |-> -1, gap_penalty |-> 0],
     [match_score |-> 0, mismatch_score |-> 0, gap_penalty |-> 0],
     [match_score |-> 2, mismatch_score |-> -1, gap_penalty |-> 1],
     [match_score |-> -1, mismatch_score |-> 2, gap_penalty |-> -1]}

InitSmithWaterman ==
    /\ str1 \in Strings(Chars, MaxLenSW)
    /\ str2 \in Strings(Chars, MaxLenSW)
    /\ str3 = <<>>
    /\ p = DefaultP
    /\ scores \in ScoreValues
    /\ called = "none"
    /\ ret = Return(NoValue)

NextSmithWaterman == CallSmithWaterman

SpecSmithWaterman == InitSmithWaterman /\ [][NextSmithWaterman]_vars

NextSubstring == CallLongestCommonSubstring

SpecSubstring == Init /\ [][NextSubstring]_vars

(* =============================== claims ================================ *)

(* ---- C1 ---- *)

\* C1: the Levenshtein distance satisfies the triangle inequality: for all
\* a, b, c, levenshtein_distance(a, b) <= levenshtein_distance(a, c) +
\* levenshtein_distance(c, b) (here a = str1, b = str2, c = str3).
C1_Triangle ==
    called = "levenshtein_distance" =>
        ret.val <= levenshtein_distance(str1, str3).val
                   + levenshtein_distance(str3, str2).val

\* the bound is met with equality through a third string that is neither end
C1_Witness ==
    /\ called = "levenshtein_distance"
    /\ ret.val = 2
    /\ str3 # str1
    /\ str3 # str2
    /\ levenshtein_distance(str1, str3).val = 1
    /\ levenshtein_distance(str3, str2).val = 1

(* ---- C3 ---- *)

\* C3: the Levenshtein distance is symmetric: levenshtein_distance(a, b)
\* equals levenshtein_distance(b, a) for all a and b.
C3_LevSymmetric ==
    called = "levenshtein_distance" =>
        /\ ret.err = "none"
        /\ ret.val = levenshtein_distance(str2, str1).val

\* inputs of different lengths at distance 2
C3_Witness ==
    /\ called = "levenshtein_distance"
    /\ Len(str1) < Len(str2)
    /\ Len(str1) > 0
    /\ ret.val = 2

(* ---- C4 ---- *)

\* the positions at which two strings of equal length differ
DiffPositions(s1, s2) == {i \in 1..Len(s1) : s1[i] # s2[i]}

\* C4: hamming_distance raises the length-mismatch error exactly when the
\* lengths differ, with no partial result; on equal lengths it returns the
\* number of differing positions, so 0 on identical inputs.
C4_Hamming ==
    called = "hamming_distance" =>
        /\ (ret.err = "ValueError") <=> (Len(str1) # Len(str2))
        /\ ret.err \in {"none", "ValueError"}
        /\ ret.err = "ValueError" => ret.val = NoValue
        /\ Len(str1) = Len(str2) =>
              /\ ret.err = "none"
              /\ ret.val = Cardinality(DiffPositions(str1, str2))
        /\ str1 = str2 => ret = Return(0)

\* a length mismatch between two non-empty strings with a common prefix
C4_Witness ==
    /\ called = "hamming_distance"
    /\ Len(str1) = 2
    /\ Len(str2) = 3
    /\ str1[1] = str2[1]
    /\ ret.err = "ValueError"

(* ---- C6 ---- *)

\* t is s with two different adjacent characters swapped: s = u+x+y+v and
\* t = u+y+x+v with x # y
IsAdjacentSwap(s, t) ==
    \E k \in 1..(Len(s) - 1) :
        /\ s[k] # s[k + 1]
        /\ t = [s EXCEPT ![k] = s[k + 1], ![k + 1] = s[k]]

\* C6: one adjacent transposition of two distinct characters costs one edit
\* in damerau_levenshtein_distance and two in levenshtein_distance.
C6_Transposition ==
    (called = "damerau_levenshtein_distance" /\ IsAdjacentSwap(str1, str2)) =>
        /\ ret = Return(1)
        /\ levenshtein_distance(str1, str2) = Return(2)

\* a swap between a non-empty prefix u and a non-empty suffix v
C6_Witness ==
    /\ called = "damerau_levenshtein_distance"
    /\ Len(str1) = 4
    /\ Len(str2) = 4
    /\ str1[1] = str2[1]
    /\ str1[4] = str2[4]
    /\ str1[2] # str2[2]
    /\ IsAdjacentSwap(str1, str2)
    /\ ret.val = 1

(* ---- C10 ---- *)

\* the subsequence of X at the positions in J, from position k on
RECURSIVE Pick(_, _, _)
Pick(X, J, k) ==
    IF k > Len(X) THEN <<>>
    ELSE (IF k \in J THEN <<X[k]>> ELSE <<>>) \o Pick(X, J, k + 1)

\* s[i..] is a subsequence of Y[j..]
RECURSIVE IsSubseqFrom(_, _, _, _)
IsSubseqFrom(s, Y, i, j) ==
    IF i > Len(s) THEN TRUE
    ELSE IF j > Len(Y) THEN FALSE
    ELSE IF s[i] = Y[j] THEN IsSubseqFrom(s, Y, i + 1, j + 1)
    ELSE IsSubseqFrom(s, Y, i, j + 1)

\* the lengths of the common subsequences of X and Y
CommonSubseqLens(X, Y) ==
    {Cardinality(J) : J \in {K \in SUBSET (1..Len(X)) :
                                 IsSubseqFrom(Pick(X, K, 1), Y, 1, 1)}}

\* C10: lcs(X, Y) is the maximum length of a sequence that is a subsequence
\* of both X and Y; lcs(s, s) = len(s), and lcs(X, Y) = lcs(Y, X).
C10_Lcs ==
    called = "lcs" =>
        /\ ret.err = "none"
        /\ ret.val \in CommonSubseqLens(str1, str2)
        /\ \A l \in CommonSubseqLens(str1, str2) : l <= ret.val
        /\ str1 = str2 => ret.val = Len(str1)
        /\ ret = lcs(str2, str1)

\* two different strings whose longest common subsequence has two characters
\* that are not at the same positions in both
C10_Witness ==
    /\ called = "lcs"
    /\ Len(str1) = 3
    /\ Len(str2) = 3
    /\ str1[1] # str2[1]
    /\ str1[3] # str2[3]
    /\ ret.val = 2

(* ---- C2 ---- *)

\* C2: jaro_distance is symmetric: scanning either argument first gives the
\* same match count, the same halved transposition count and so the same
\* similarity.
C2_JaroSymmetric ==
    called = "jaro_distance" =>
        /\ ret.err = "none"
        /\ jaro_distance(str2, str1).err = "none"
        /\ RatEq(ret.val, jaro_distance(str2, str1).val)
        /\ JaroCounts(str1, str2) = JaroCounts(str2, str1)

\* inputs of different lengths with a transposition among the matches
C2_Witness ==
    /\ called = "jaro_distance"
    /\ Len(str1) # Len(str2)
    /\ JaroCounts(str1, str2).err = "none"
    /\ JaroCounts(str1, str2).val.transpositions >= 1
    /\ RatLt(Rat(0, 1), ret.val)

(* ---- C7 ---- *)

\* C7: jaro_distance lies in [0, 1]: 0 <= t <= m <= min(len(a), len(b)) for
\* the match count m and the halved transposition count t, and the result
\* is 0.0 when m = 0.
C7_JaroRange ==
    called = "jaro_distance" =>
        LET c == JaroCounts(str1, str2)
        IN  /\ ret.err = "none"
            /\ c.err = "none"
            /\ 0 <= c.val.transpositions
            /\ c.val.transpositions <= c.val.match_count
            /\ c.val.match_count <= Min2(Len(str1), Len(str2))
            /\ ret.val.den > 0
            /\ RatLe(Rat(0, 1), ret.val)
            /\ RatLe(ret.val, Rat(1, 1))
            /\ c.val.match_count = 0 => ret.val = Rat(0, 1)

\* a result strictly inside the interval, with a transposition counted
C7_Witness ==
    /\ called = "jaro_distance"
    /\ JaroCounts(str1, str2).val.transpositions >= 1
    /\ RatLt(Rat(0, 1), ret.val)
    /\ RatLt(ret.val, Rat(1, 1))

(* ---- C8 ---- *)

\* the length of the longest common prefix of s and t
LongestCommonPrefix(s, t) ==
    CHOOSE k \in 0..Min2(Len(s), Len(t)) :
        /\ SubSeq(s, 1, k) = SubSeq(t, 1, k)
        /\ \A l \in (k + 1)..Min2(Len(s), Len(t)) :
               SubSeq(s, 1, l) # SubSeq(t, 1, l)

\* C8 as stated: with p = 0.1 and a common prefix of positive length,
\* jaro_winkler_distance is strictly greater than jaro_distance.
C8_StrictlyGreater ==
    (/\ called = "jaro_winkler_distance"
     /\ p = DefaultP
     /\ LongestCommonPrefix(str1, str2) > 0) =>
        /\ ret.err = "none"
        /\ RatLt(jaro_distance(str1, str2).val, ret.val)

\* C8 (amended): with p = 0.1 and a common prefix of positive length,
\* jaro_winkler_distance is strictly greater than jaro_distance unless
\* jaro_distance is 1, in which case the two are equal.
C8_GreaterUnlessOne ==
    (/\ called = "jaro_winkler_distance"
     /\ p = DefaultP
     /\ LongestCommonPrefix(str1, str2) > 0) =>
        LET j == jaro_distance(str1, str2).val
        IN  /\ ret.err = "none"
            /\ RatLt(j, Rat(1, 1)) => RatLt(j, ret.val)
            /\ RatEq(j, Rat(1, 1)) => RatEq(ret.val, j)

\* a boosted result for two different strings that match in part
C8_Witness ==
    /\ called = "jaro_winkler_distance"
    /\ p = DefaultP
    /\ LongestCommonPrefix(str1, str2) > 0
    /\ RatLt(Rat(0, 1), jaro_distance(str1, str2).val)
    /\ RatLt(jaro_distance(str1, str2).val, Rat(1, 1))
    /\ RatLt(jaro_distance(str1, str2).val, ret.val)

(* ---- C9 ---- *)

C5_NoError ==
    called \notin {"none", "hamming_distance"} => ret.err = "none"

(* ---- C11 ---- *)

\* the cells (i, j) at which a common contiguous substring of length l ends:
\* X[i-l .. i-1] = Y[j-l .. j-1]
CommonEnds(X, Y, l) ==
    {e \in (l..Len(X)) \X (l..Len(Y)) :
        SubSeq(X, e[1] - l + 1, e[1]) = SubSeq(Y, e[2] - l + 1, e[2])}

\* the length of the longest common contiguous substring
MaxCommonLen(X, Y) ==
    CHOOSE l \in 0..Min2(Len(X), Len(Y)) :
        /\ CommonEnds(X, Y, l) # {}
        /\ \A k \in (l + 1)..Min2(Len(X), Len(Y)) : CommonEnds(X, Y, k) = {}

\* e comes no later than f in the row-major scan
RowMajorLeq(e, f) == e[1] < f[1] \/ (e[1] = f[1] /\ e[2] <= f[2])

\* the end cell of a longest common substring that the scan meets first
FirstEnd(X, Y) ==
    CHOOSE e \in CommonEnds(X, Y, MaxCommonLen(X, Y)) :
        \A f \in CommonEnds(X, Y, MaxCommonLen(X, Y)) : RowMajorLeq(e, f)

\* s occurs contiguously in X
IsSubstring(s, X) ==
    \E k \in 0..(Len(X) - Len(s)) : SubSeq(X, k + 1, k + Len(s)) = s

\* C11: longest_common_substring returns a string that occurs contiguously
\* in X and in Y, of the maximum length of such strings; among several of
\* that length the one whose end cell comes first in the row-major scan;
\* and the empty string when X and Y share no character.
C11_Substring ==
    called = "longest_common_substring" =>
        LET l == MaxCommonLen(str1, str2)
            e == FirstEnd(str1, str2)
            st == LcsubRun(str1, str2)
        IN  /\ ret.err = "none"
            /\ IsSubstring(ret.val, str1)
            /\ IsSubstring(ret.val, str2)
            /\ Len(ret.val) = l
            /\ l > 0 =>
                 /\ ret.val = SubSeq(str1, e[1] - l + 1, e[1])
                 /\ st.max_i = e[1]
                 /\ st.max_j = e[2]
            /\ CharSet(str1) \cap CharSet(str2) = {} => ret.val = <<>>

\* two different common substrings of the maximum length: the tie is
\* decided by the scan order
C11_Witness ==
    /\ called = "longest_common_substring"
    /\ MaxCommonLen(str1, str2) = 2
    /\ \E f \in CommonEnds(str1, str2, 2) :
          /\ SubSeq(str1, f[1] - 1, f[1]) # ret.val
          /\ f[2] < FirstEnd(str1, str2)[2]

(* ---- C12 ---- *)

\* C12: with the default scores, smith_waterman(s, s) returns the score
\* 3 * len(s) and both alignment strings equal to s, for every s, the empty
\* one included.
C12_Identical ==
    (/\ called = "smith_waterman"
     /\ scores = DefaultScores
     /\ str1 = str2) =>
        ret = Return(<<3 * Len(str1), str1, str1>>)

\* a string of three characters, one of them repeated, aligned with itself
C12_Witness ==
    /\ called = "smith_waterman"
    /\ scores = DefaultScores
    /\ str1 = str2
    /\ Len(str1) = 3
    /\ str1[1] = str1[3]
    /\ str1[1] # str1[2]
    /\ ret.val[1] = 9

(* ---- C14 ---- *)

\* the score matrix of the call in the current state
CalledMatrix ==
    SwRun(str1, str2, scores.match_score, scores.mismatch_score,
          scores.gap_penalty).score_matrix

\* the cells of the matrix, row 0 and column 0 included
MatrixCells == (0..Len(str1)) \X (0..Len(str2))

\* the cells of the matrix mat holding the value v
CellsWith(mat, v) == {c \in MatrixCells : mat[c[1]][c[2]] = v}

C13_Dice ==
    called = "dice_coefficient" =>
        /\ ret.err = "none"
        /\ RatLe(Rat(0, 1), ret.val)
        /\ RatLe(ret.val, Rat(1, 1))
        /\ str1 = str2 => RatEq(ret.val, Rat(1, 1))

(* ---- C15 ---- *)

\* C15: when max(len(a), len(b)) <= 1 the match distance is -1, the search
\* window of every position is empty, nothing is matched and jaro_distance
\* returns 0.0 without an error, also for a = b of one character.
C15_ShortInputs ==
    (called = "jaro_distance" /\ Max2(Len(str1), Len(str2)) <= 1) =>
        LET match_distance == MatchDistance(str1, str2)
        IN  /\ match_distance = -1
            /\ \A i \in 0..(Len(str1) - 1) :
                   WindowStart(i, match_distance)
                     >= WindowEnd(i, match_distance, Len(str2))
            /\ JaroMatching(str1, str2).match_count = 0
            /\ ret = Return(Rat(0, 1))

\* the same one-character string twice
C15_Witness ==
    /\ called = "jaro_distance"
    /\ Len(str1) = 1
    /\ str1 = str2
    /\ ret = Return(Rat(0, 1))

(* ---- C16 ---- *)

\* the number of True entries of a match array
TrueCount(matches) == Cardinality({x \in 1..Len(matches) : matches[x]})

\* C16: after the matching phase matches_str1 and matches_str2 hold the
\* same number of True entries, match_count; so the cursor k of the
\* transposition phase stays within str2 at every read, the skip loop
\* ends, and jaro_distance raises no IndexError.
C16_CursorInRange ==
    called = "jaro_distance" =>
        LET st == JaroMatching(str1, str2)
        IN  /\ TrueCount(st.matches_str1) = st.match_count
            /\ TrueCount(st.matches_str2) = st.match_count
            /\ JaroTranspositions(str1, str2, st, 0, 0, 0).err = "none"
            /\ ret.err = "none"

\* matches behind unmatched positions of str2, which the cursor skips, and
\* the last position of str2 matched
C16_Witness ==
    /\ called = "jaro_distance"
    /\ Len(str2) >= 3
    /\ JaroMatching(str1, str2).match_count >= 2
    /\ ~JaroMatching(str1, str2).matches_str2[1]
    /\ JaroMatching(str1, str2).matches_str2[Len(str2)]
    /\ ret.err = "none"

====
